---- MODULE Spec2Model ----
(***************************************************************************)
(* A model of format.py, the Sublime Text plugin that pipes a view's      *)
(* buffer through an external formatter (autopep8, clang-format, gn,      *)
(* prettier, rustfmt).                                                     *)
(*                                                                         *)
(* Strings are TLA+ strings; Python's None is the string None below, which *)
(* is no path, syntax, or binary name of the model.  Paths are POSIX paths *)
(* (the os.name != 'nt' branch of the module).                              *)
(***************************************************************************)
EXTENDS Integers, Sequences, FiniteSets, TLC

VARIABLES
    syntax,       \* view.settings().get('syntax')
    file_name,    \* view.file_name()
    sel,          \* view.sel(): sequence of regions [a, b]
    buffer,       \* the view's text
    folders,      \* window.folders()
    project,      \* window.project_data() and extract_variables()
    fs,           \* the filesystem: path -> kind of entry
    cmd,          \* the FormatFileCommand instance bound to the view
    proc,         \* processes spawned by the last operation
    ui,           \* sublime.error_message dialogs shown by the last operation
    ret           \* what the last operation returned or did

vars == <<syntax, file_name, sel, buffer, folders, project, fs, cmd, proc, ui, ret>>

None == "None"

-----------------------------------------------------------------------------
(* Python string helpers *)

Ch(s, i) == SubSeq(s, i, i)

StartsWith(s, p) == Len(p) <= Len(s) /\ SubSeq(s, 1, Len(p)) = p

EndsWith(s, p) == Len(p) <= Len(s) /\ SubSeq(s, Len(s) - Len(p) + 1, Len(s)) = p

\* str.rfind, 1-based; 0 when c does not occur
RFind(s, c) ==
    LET hits == {i \in 1..Len(s) : Ch(s, i) = c}
    IN  IF hits = {} THEN 0 ELSE CHOOSE i \in hits : \A j \in hits : j <= i

\* bool(s) of an optional string
Truthy(s) == s # None /\ s # ""

\* posixpath.splitext(p)[0]
SplitExtRoot(p) ==
    LET sepIndex == RFind(p, "/")
        dotIndex == RFind(p, ".")
    IN  IF /\ dotIndex > sepIndex
           /\ \E k \in (sepIndex + 1)..(dotIndex - 1) : Ch(p, k) # "."
        THEN SubSeq(p, 1, dotIndex - 1)
        ELSE p

\* posixpath.join(a, b)
PathJoin(a, b) ==
    IF StartsWith(b, "/") THEN b
    ELSE IF a = "" \/ EndsWith(a, "/") THEN a \o b
    ELSE a \o "/" \o b

\* posixpath.dirname(p)
DirName(p) ==
    LET i == RFind(p, "/")
        head == SubSeq(p, 1, i)
    IN  IF head # "" /\ \E k \in 1..Len(head) : Ch(head, k) # "/"
        THEN SubSeq(head, 1, CHOOSE n \in 1..Len(head) :
                 /\ Ch(head, n) # "/"
                 /\ \A m \in (n + 1)..Len(head) : Ch(head, m) = "/")
        ELSE head

-----------------------------------------------------------------------------
(* The formatter tables *)

\* class Formatter, in enumeration order
Formatter == <<"AutoPep8", "ClangFormat", "Gn", "Prettier", "RustFmt">>

FormatterSet == {Formatter[i] : i \in DOMAIN Formatter}

\* Formatter.__str__
Str(formatter) ==
    CASE formatter = "AutoPep8" -> "autopep8"
      [] formatter = "ClangFormat" -> "clang-format"
      [] formatter = "Gn" -> "gn"
      [] formatter = "Prettier" -> "prettier"
      [] formatter = "RustFmt" -> "rustfmt"

\* FORMATTERS, the os.name != 'nt' table
FORMATTERS(formatter) ==
    CASE formatter = "AutoPep8" -> <<"autopep8">>
      [] formatter = "ClangFormat" -> <<"clang-format">>
      [] formatter = "Gn" -> <<"gn">>
      [] formatter = "Prettier" -> <<"prettier">>
      [] formatter = "RustFmt" -> <<"rustfmt">>

LANGUAGES(formatter) ==
    CASE formatter = "AutoPep8" -> <<"Python">>
      [] formatter = "ClangFormat" -> <<"C", "C++", "Objective-C", "Objective-C++", "Java">>
      [] formatter = "Gn" -> <<"GN">>
      [] formatter = "Prettier" ->
            <<"CSS", "HTML", "JavaScript", "JavaScript (Babel)", "JSON", "TypeScript">>
      [] formatter = "RustFmt" -> <<"Rust">>

-----------------------------------------------------------------------------
(* is_supported_language and formatter_type *)

is_supported_language_any_file(formatter, syn, fname) ==
    IF syn = None THEN FALSE
    ELSE \E i \in DOMAIN LANGUAGES(formatter) :
             EndsWith(SplitExtRoot(syn), LANGUAGES(formatter)[i])

is_supported_language(formatter, syn, fname) ==
    IF syn = None THEN FALSE
    ELSE LET stem == SplitExtRoot(syn)
             supported == \E i \in DOMAIN LANGUAGES(formatter) :
                              EndsWith(stem, LANGUAGES(formatter)[i])
         IN  supported /\ Truthy(fname)

RECURSIVE FormatterFrom(_, _, _)
FormatterFrom(i, syn, fname) ==
    IF i > Len(Formatter) THEN None
    ELSE IF is_supported_language(Formatter[i], syn, fname) THEN Formatter[i]
    ELSE FormatterFrom(i + 1, syn, fname)

formatter_type(syn, fname) == FormatterFrom(1, syn, fname)

-----------------------------------------------------------------------------
(* The filesystem, as os.path.isdir / isfile / exists and os.access see it *)

\* kinds of entry: "absent"; "file" (regular, not executable); "xfile"
\* (regular, executable); "xother" (executable, neither regular file nor
\* directory: a FIFO, a socket, a device); "dir" (readable directory);
\* "dir_noread" (directory without read permission)
FileKinds == {"absent", "file", "xfile", "xother"}
DirKinds == {"absent", "dir", "dir_noread"}

Kind(path) == IF path \in DOMAIN fs THEN fs[path] ELSE "absent"

IsDir(path) == Kind(path) \in {"dir", "dir_noread"}
IsFile(path) == Kind(path) \in {"file", "xfile"}
Exists(path) == Kind(path) # "absent"
AccessR(path) == Kind(path) \in {"file", "xfile", "xother", "dir"}
AccessX(path) == Kind(path) \in {"xfile", "xother", "dir", "dir_noread"}

\* os.path.expanduser('~')
Home == "/home/u"

\* os.environ['PATH'].split(os.pathsep), ~/.local/bin appended by add_to_path
EnvPath == <<"/usr/bin", "/home/u/.local/bin">>

\* shutil.which(name): the first PATH entry holding an existing, executable
\* non-directory of that name
RECURSIVE WhichFrom(_, _)
WhichFrom(i, name) ==
    IF i > Len(EnvPath) THEN None
    ELSE LET candidate == PathJoin(EnvPath[i], name)
         IN  IF Exists(candidate) /\ AccessX(candidate) /\ ~IsDir(candidate)
             THEN candidate
             ELSE WhichFrom(i + 1, name)

Which(name) == WhichFrom(1, name)

-----------------------------------------------------------------------------
(* find_binary *)

is_directory(d) == Truthy(d) /\ IsDir(d) /\ AccessR(d)

is_binary(f) == Truthy(f) /\ IsFile(f) /\ AccessX(f)

\* for binary in binaries: binary = os.path.join(directory, binary); first is_binary
RECURSIVE FirstInDirectory(_, _, _)
FirstInDirectory(directory, binaries, i) ==
    IF i > Len(binaries) THEN None
    ELSE IF is_binary(PathJoin(directory, binaries[i]))
         THEN PathJoin(directory, binaries[i])
    ELSE FirstInDirectory(directory, binaries, i + 1)

\* for binary in binaries: binary = shutil.which(binary); first is_binary
RECURSIVE FirstOnPath(_, _)
FirstOnPath(binaries, i) ==
    IF i > Len(binaries) THEN None
    ELSE IF is_binary(Which(binaries[i])) THEN Which(binaries[i])
    ELSE FirstOnPath(binaries, i + 1)

\* for project_path in view.window().folders(): first one file_name starts with
RECURSIVE ProjectBinFrom(_, _, _)
ProjectBinFrom(i, fname, dirs) ==
    IF i > Len(dirs) THEN None
    ELSE IF StartsWith(fname, dirs[i])
         THEN PathJoin(PathJoin(dirs[i], "node_modules"), ".bin")
    ELSE ProjectBinFrom(i + 1, fname, dirs)

CargoPath == PathJoin(PathJoin(Home, ".cargo"), "bin")

fallback_directory(formatter, fname, dirs) ==
    IF formatter = "Prettier" THEN ProjectBinFrom(1, fname, dirs)
    ELSE IF formatter = "RustFmt" THEN CargoPath
    ELSE None

find_binary(formatter, directory, fname, dirs) ==
    LET binaries == FORMATTERS(formatter)
        first == IF is_directory(directory)
                 THEN FirstInDirectory(directory, binaries, 1) ELSE None
        second == FirstOnPath(binaries, 1)
        common == fallback_directory(formatter, fname, dirs)
        third == IF is_directory(common)
                 THEN FirstInDirectory(common, binaries, 1) ELSE None
    IN  IF first # None THEN first
        ELSE IF second # None THEN second
        ELSE third

-----------------------------------------------------------------------------
(* Project settings.  A dict is a function from its keys; a setting's value *)
(* carries its Python type: [type |-> "bool" | "list" | "str" | "int" |    *)
(* "dict", val |-> ...]; NoSetting is the None get_project_setting returns  *)

NoSetting == [type |-> "none"]

\* os.environ, as far as settings refer to it
Environ == [HOME |-> Home]

WordChars == "ABCDEFGHIJKLMNOPQRSTUVWXYZabcdefghijklmnopqrstuvwxyz0123456789_"

WordCharSet == {Ch(WordChars, i) : i \in 1..Len(WordChars)}

\* the last index of the run of word characters starting at k; k - 1 if none
RECURSIVE WordRun(_, _)
WordRun(path, k) ==
    IF k <= Len(path) /\ Ch(path, k) \in WordCharSet THEN WordRun(path, k + 1) ELSE k - 1

\* the index of the first "}" at or after k; 0 if none
RECURSIVE Closing(_, _)
Closing(path, k) ==
    IF k > Len(path) THEN 0
    ELSE IF Ch(path, k) = "}" THEN k
    ELSE Closing(path, k + 1)

\* posixpath.expandvars: $NAME and ${NAME} are replaced when NAME is in the
\* environment and left as they are otherwise; a value is not expanded again
RECURSIVE ExpandFrom(_, _)
ExpandFrom(path, i) ==
    IF i > Len(path) THEN path
    ELSE IF Ch(path, i) # "$" THEN ExpandFrom(path, i + 1)
    ELSE IF WordRun(path, i + 1) > i
         THEN LET j == WordRun(path, i + 1)
                  name == SubSeq(path, i + 1, j)
              IN  IF name \in DOMAIN Environ
                  THEN ExpandFrom(SubSeq(path, 1, i - 1) \o Environ[name]
                                      \o SubSeq(path, j + 1, Len(path)),
                                  i + Len(Environ[name]))
                  ELSE ExpandFrom(path, j + 1)
    ELSE IF i + 1 <= Len(path) /\ Ch(path, i + 1) = "{" /\ Closing(path, i + 2) # 0
         THEN LET j == Closing(path, i + 2)
                  name == SubSeq(path, i + 2, j - 1)
              IN  IF name \in DOMAIN Environ
                  THEN ExpandFrom(SubSeq(path, 1, i - 1) \o Environ[name]
                                      \o SubSeq(path, j + 1, Len(path)),
                                  i + Len(Environ[name]))
                  ELSE ExpandFrom(path, j + 1)
    ELSE ExpandFrom(path, i + 1)

ExpandVars(path) == ExpandFrom(path, 1)

get_project_setting(proj, formatter, setting_key) ==
    LET project_data == proj.data
    IN  IF DOMAIN project_data = {} \/ "settings" \notin DOMAIN project_data
        THEN NoSetting
        ELSE IF "format" \notin DOMAIN project_data["settings"] THEN NoSetting
        ELSE LET format == project_data["settings"]["format"]
                 missing == formatter # None /\ Str(formatter) \notin DOMAIN format
                 settings == IF formatter # None THEN format[Str(formatter)] ELSE format
             IN  IF missing THEN NoSetting
                 ELSE IF setting_key \notin DOMAIN settings THEN NoSetting
                 ELSE LET setting == settings[setting_key]
                      IN  IF setting.type = "str"
                          THEN [type |-> "str", val |-> ExpandVars(setting.val)]
                          ELSE setting

\* the directory find_binary is handed: the 'path' setting, a string or None
SettingString(setting) == IF setting.type = "str" THEN setting.val ELSE None

-----------------------------------------------------------------------------
(* FormatFileCommand.initialize, is_enabled, is_visible *)

initialize(syn, fname, dirs, proj) ==
    LET formatter == formatter_type(syn, fname)
    IN  [environment |-> get_project_setting(proj, None, "environment"),
         formatter |-> formatter,
         binary |-> IF formatter # None
                    THEN find_binary(formatter,
                             SettingString(get_project_setting(proj, formatter, "path")),
                             fname, dirs)
                    ELSE None]

\* the instance after is_enabled has run on instance c
enabled_instance(c) ==
    IF c.binary = None THEN initialize(syntax, file_name, folders, project) ELSE c

is_enabled ==
    /\ cmd' = enabled_instance(cmd)
    /\ ret' = [op |-> "is_enabled", value |-> cmd'.binary # None]
    /\ proc' = <<>>
    /\ ui' = <<>>
    /\ UNCHANGED <<syntax, file_name, sel, buffer, folders, project, fs>>

is_visible ==
    /\ cmd' = enabled_instance(cmd)
    /\ ret' = [op |-> "is_visible", value |-> cmd'.binary # None]
    /\ proc' = <<>>
    /\ ui' = <<>>
    /\ UNCHANGED <<syntax, file_name, sel, buffer, folders, project, fs>>

-----------------------------------------------------------------------------
(* The state after the plugin is loaded and before a view is configured *)

NoProject == [data |-> [k \in {} |-> NoSetting], project_path |-> None]

NoCommand == [environment |-> NoSetting, formatter |-> None, binary |-> None]

EmptyFs == [p \in {} |-> "absent"]

Idle == [op |-> "none"]

-----------------------------------------------------------------------------
(* formatter_type applied to every view of a bounded set *)

Syntaxes ==
    {None,
     "Packages/Python/Python.sublime-syntax",
     "Packages/MagicPython/grammars/MagicPython.tmLanguage",
     "Packages/C++/C.sublime-syntax",
     "Packages/C++/C++.sublime-syntax",
     "Packages/Objective-C/Objective-C.sublime-syntax",
     "Packages/Objective-C/Objective-C++.sublime-syntax",
     "Packages/Java/Java.sublime-syntax",
     "Packages/Java/JavaProperties.sublime-syntax",
     "Packages/GN/GN.sublime-syntax",
     "Packages/CSS/CSS.sublime-syntax",
     "Packages/Sass/Syntaxes/SCSS.sublime-syntax",
     "Packages/HTML/HTML.sublime-syntax",
     "Packages/JavaScript/JavaScript.sublime-syntax",
     "Packages/Babel/JavaScript (Babel).sublime-syntax",
     "Packages/JavaScript/JSON.sublime-syntax",
     "Packages/TypeScript/TypeScript.tmLanguage",
     "Packages/Rust/Rust.sublime-syntax",
     "Packages/Text/Plain text.tmLanguage",
     "Packages/User/.Rust",
     "Packages/v1.2/Rust"}

FileNames == {None, "", "/w/app/a.src", "/w/app-tests/a.src"}

InitType ==
    /\ syntax \in Syntaxes
    /\ file_name \in FileNames
    /\ sel = <<>>
    /\ buffer = ""
    /\ folders = <<>>
    /\ project = NoProject
    /\ fs = EmptyFs
    /\ cmd = NoCommand
    /\ proc = <<>>
    /\ ui = <<>>
    /\ ret = Idle

CallFormatterType ==
    /\ ret = Idle
    /\ ret' = [op |-> "formatter_type", value |-> formatter_type(syntax, file_name)]
    /\ UNCHANGED <<syntax, file_name, sel, buffer, folders, project, fs, cmd, proc, ui>>

NextType == CallFormatterType

SpecType == InitType /\ [][NextType]_vars

\* the buffer's language: the syntax definition's file name without its extension
Language(syn) ==
    LET stem == SplitExtRoot(syn)
    IN  SubSeq(stem, RFind(stem, "/") + 1, Len(stem))

Lists(formatter, lang) ==
    \E i \in DOMAIN LANGUAGES(formatter) : LANGUAGES(formatter)[i] = lang

HasSuffixLanguage(formatter, syn) ==
    /\ syn # None
    /\ \E i \in DOMAIN LANGUAGES(formatter) :
           EndsWith(SplitExtRoot(syn), LANGUAGES(formatter)[i])

\* the first formatter of the enumeration that is in the set, None if it is empty
FirstFormatterIn(formatters) ==
    LET hits == {i \in DOMAIN Formatter : Formatter[i] \in formatters}
    IN  IF hits = {} THEN None
        ELSE Formatter[CHOOSE i \in hits : \A j \in hits : i <= j]

\* C1 as stated: for every view, formatter_type returns the first formatter in
\* enumeration order whose language list contains the buffer's language, and
\* None if no list contains it.
C1_Original ==
    ret.op = "formatter_type" =>
        ret.value = FirstFormatterIn(
            {f \in FormatterSet : syntax # None /\ Lists(f, Language(syntax))})

\* C1 amended: for a view with a non-empty file name, formatter_type returns
\* the first formatter in enumeration order one of whose language names is a
\* suffix of the syntax path without its extension, and None if there is none;
\* for a view with no syntax or no file name it returns None.
C1_FormatterType ==
    ret.op = "formatter_type" =>
        ret.value = IF Truthy(file_name)
                    THEN FirstFormatterIn({f \in FormatterSet : HasSuffixLanguage(f, syntax)})
                    ELSE None

\* a saved SCSS buffer was given Prettier, through the language name CSS
C1_Witness ==
    /\ ret.op = "formatter_type"
    /\ syntax = "Packages/Sass/Syntaxes/SCSS.sublime-syntax"
    /\ file_name = "/w/app/a.src"
    /\ ret.value = "Prettier"

-----------------------------------------------------------------------------
(* find_binary applied to every formatter, configured directory, view and  *)
(* filesystem of a bounded set                                              *)

ToolsDir == "/opt/tools"
AppBin == "/w/app/node_modules/.bin"
AppTestsBin == "/w/app-tests/node_modules/.bin"

SearchDirs == {ToolsDir, EnvPath[1], EnvPath[2], AppBin, AppTestsBin, CargoPath}

BinaryNames == UNION {{FORMATTERS(f)[i] : i \in DOMAIN FORMATTERS(f)} : f \in FormatterSet}

\* a filesystem in which directory d has kind dk[d] and, when it is a
\* directory, holds every formatter's binary with kind bk[d]
FsOf(dk, bk) ==
    [p \in SearchDirs \cup {PathJoin(d, n) : d \in SearchDirs, n \in BinaryNames} |->
        IF p \in SearchDirs THEN dk[p]
        ELSE LET d == CHOOSE d \in SearchDirs : \E n \in BinaryNames : p = PathJoin(d, n)
             IN  IF dk[d] = "absent" THEN "absent" ELSE bk[d]]

\* what one directory may look like: <<kind of directory, kind of its binaries>>
ToolsDirStates ==
    {<<"absent", "absent">>, <<"dir_noread", "absent">>, <<"dir_noread", "xfile">>}
        \cup {<<"dir", k>> : k \in FileKinds}
FirstPathStates == {<<"dir", k>> : k \in FileKinds}
SecondPathStates == {<<"dir", "absent">>, <<"dir", "xfile">>}
FallbackStates == {<<"absent", "absent">>, <<"dir_noread", "xfile">>, <<"dir", "xfile">>}
OtherFolderStates == {<<"absent", "absent">>, <<"dir", "xfile">>}

FolderLists == {<<>>, <<"/w/app">>, <<"/w/app", "/w/app-tests">>}

Directories == {None, "", ToolsDir}

InitFind ==
    /\ syntax = None
    /\ file_name \in {"/w/app/a.src", "/w/app-tests/a.src"}
    /\ sel = <<>>
    /\ buffer = ""
    /\ folders \in FolderLists
    /\ project = NoProject
    /\ \E t \in ToolsDirStates, p1 \in FirstPathStates, p2 \in SecondPathStates,
          a \in FallbackStates, b \in OtherFolderStates, c \in FallbackStates :
          LET st == (ToolsDir :> t) @@ (EnvPath[1] :> p1) @@ (EnvPath[2] :> p2)
                       @@ (AppBin :> a) @@ (AppTestsBin :> b) @@ (CargoPath :> c)
          IN  fs = FsOf([d \in SearchDirs |-> st[d][1]], [d \in SearchDirs |-> st[d][2]])
    /\ cmd = NoCommand
    /\ proc = <<>>
    /\ ui = <<>>
    /\ ret = Idle

CallFindBinary ==
    /\ ret = Idle
    /\ \E formatter \in FormatterSet, directory \in Directories :
          ret' = [op |-> "find_binary", formatter |-> formatter, directory |-> directory,
                  value |-> find_binary(formatter, directory, file_name, folders)]
    /\ UNCHANGED <<syntax, file_name, sel, buffer, folders, project, fs, cmd, proc, ui>>

NextFind == CallFindBinary

SpecFind == InitFind /\ [][NextFind]_vars

\* a candidate qualifies: it is a regular file and executable
Qualifies(path) == path # None /\ Kind(path) = "xfile"

\* the first element of a sequence of candidates that qualifies
FirstQualifying(candidates) ==
    LET hits == {i \in DOMAIN candidates : Qualifies(candidates[i])}
    IN  IF hits = {} THEN None
        ELSE candidates[CHOOSE i \in hits : \A j \in hits : i <= j]

InDirectory(d, binaries) == [i \in DOMAIN binaries |-> PathJoin(d, binaries[i])]

\* folder dir contains the file: the file's path continues dir with a separator
Contains(dir, fname) == StartsWith(fname, IF EndsWith(dir, "/") THEN dir ELSE dir \o "/")

\* the candidates of the three tiers, in order, with the fallback directory
\* taken under the project folder that contains the file
TierCandidates(formatter, directory, fname, dirs) ==
    LET binaries == FORMATTERS(formatter)
        holders == {i \in DOMAIN dirs : Contains(dirs[i], fname)}
        holder == dirs[CHOOSE i \in holders : \A j \in holders : i <= j]
        common == IF formatter = "Prettier"
                  THEN IF holders = {} THEN None
                       ELSE holder \o "/node_modules/.bin"
                  ELSE IF formatter = "RustFmt" THEN Home \o "/.cargo/bin"
                  ELSE None
    IN  (IF Truthy(directory) /\ Kind(directory) = "dir"
         THEN InDirectory(directory, binaries) ELSE <<>>)
        \o [i \in DOMAIN binaries |-> Which(binaries[i])]
        \o (IF common # None /\ Kind(common) = "dir"
            THEN InDirectory(common, binaries) ELSE <<>>)

\* C2 as stated: find_binary returns None when no candidate of any tier is a
\* regular executable file, and otherwise the first qualifying candidate in
\* tier order: configured directory (if a readable directory), system search
\* path, then node_modules/.bin under the project folder containing the file
\* (Prettier) or ~/.cargo/bin (RustFmt).
C2_Original ==
    ret.op = "find_binary" =>
        ret.value = FirstQualifying(
            TierCandidates(ret.formatter, ret.directory, file_name, folders))

\* the tiers with the code's notion of the project folder: the first folder
\* whose path is a string prefix of the file name
PrefixTierCandidates(formatter, directory, fname, dirs) ==
    LET binaries == FORMATTERS(formatter)
        holders == {i \in DOMAIN dirs : StartsWith(fname, dirs[i])}
        holder == dirs[CHOOSE i \in holders : \A j \in holders : i <= j]
        common == IF formatter = "Prettier"
                  THEN IF holders = {} THEN None
                       ELSE holder \o "/node_modules/.bin"
                  ELSE IF formatter = "RustFmt" THEN Home \o "/.cargo/bin"
                  ELSE None
    IN  (IF Truthy(directory) /\ Kind(directory) = "dir"
         THEN InDirectory(directory, binaries) ELSE <<>>)
        \o [i \in DOMAIN binaries |-> Which(binaries[i])]
        \o (IF common # None /\ Kind(common) = "dir"
            THEN InDirectory(common, binaries) ELSE <<>>)

\* find_binary returns the first qualifying candidate of the tiers when the
\* Prettier fallback is taken under the first folder that is a string prefix
\* of the file name: the prefix test is the only place where find_binary and
\* C2 part
C2_PrefixReading ==
    ret.op = "find_binary" =>
        ret.value = FirstQualifying(
            PrefixTierCandidates(ret.formatter, ret.directory, file_name, folders))

-----------------------------------------------------------------------------
(* The command's visibility queries, interleaved with changes of the view's *)
(* syntax and file name and of the installed binaries                        *)

UserTools == "/home/u/tools"

\* "settings": {"format": {"clang-format": {"path": "$HOME/tools"}}}
PathProject ==
    [data |-> [settings |-> [format |->
        ("clang-format" :> [path |-> [type |-> "str", val |-> "$HOME/tools"]])]],
     project_path |-> "/w"]

WatchedSyntaxes ==
    {None,
     "Packages/Python/Python.sublime-syntax",
     "Packages/C++/C++.sublime-syntax",
     "Packages/Text/Plain text.tmLanguage"}

WatchedBinaries ==
    {PathJoin(EnvPath[1], "autopep8"), PathJoin(EnvPath[1], "clang-format"),
     PathJoin(UserTools, "clang-format")}

InstallStates == {"absent", "file", "xfile"}

InitEnabled ==
    /\ syntax \in WatchedSyntaxes
    /\ file_name \in {None, "/w/app/a.src"}
    /\ sel = <<>>
    /\ buffer = ""
    /\ folders = <<"/w/app">>
    /\ project = PathProject
    /\ \E kinds \in [WatchedBinaries -> InstallStates] :
          fs = kinds @@ (EnvPath[1] :> "dir") @@ (UserTools :> "dir")
    /\ cmd = initialize(syntax, file_name, folders, project)
    /\ proc = <<>>
    /\ ui = <<>>
    /\ ret = Idle

\* the user picks another syntax for the view
SetSyntax ==
    /\ \E s \in WatchedSyntaxes : syntax' = s
    /\ ret' = Idle
    /\ UNCHANGED <<file_name, sel, buffer, folders, project, fs, cmd, proc, ui>>

\* the view is saved under a name
SetFileName ==
    /\ file_name' = "/w/app/a.src"
    /\ ret' = Idle
    /\ UNCHANGED <<syntax, sel, buffer, folders, project, fs, cmd, proc, ui>>

\* a binary is installed, removed, or loses its executable bit
ChangeBinary ==
    /\ \E p \in WatchedBinaries, k \in InstallStates : fs' = [fs EXCEPT ![p] = k]
    /\ ret' = Idle
    /\ UNCHANGED <<syntax, file_name, sel, buffer, folders, project, cmd, proc, ui>>

NextEnabled == SetSyntax \/ SetFileName \/ ChangeBinary \/ is_enabled \/ is_visible

SpecEnabled == InitEnabled /\ [][NextEnabled]_vars

\* what a resolution at this moment finds: None without a formatter or a binary
ResolvableNow == initialize(syntax, file_name, folders, project).binary

IsQuery(r) == r.op \in {"is_enabled", "is_visible"}

\* C8 as stated: both queries return false whenever no formatter applies to
\* the view's current language or no binary is resolvable at the time of the
\* query.
C8_Original == IsQuery(ret) /\ ResolvableNow = None => ret.value = FALSE

\* what is_enabled does instead: a query returns false exactly when the command
\* holds no binary from an earlier resolution and a resolution at the time of
\* the query finds none; a binary once resolved is kept, with its formatter,
\* and not checked again
C8_Enabled ==
    [][IsQuery(ret') =>
        (ret'.value = FALSE <=> (cmd.binary = None /\ ResolvableNow = None))]_vars

-----------------------------------------------------------------------------
(* execute_command.  What the spawned process does is an input: whether    *)
(* Popen succeeds, and if so the exit code and the bytes written to the two *)
(* streams                                                                  *)

\* bytes.decode('utf-8') over the bytes of the model: 'a', '\n', and 0xff,
\* which is valid nowhere in UTF-8
Chr(b) == IF b = 97 THEN "a" ELSE "\n"

Decodable(bytes) == \A i \in DOMAIN bytes : bytes[i] < 128

RECURSIVE Decode(_)
Decode(bytes) == IF bytes = <<>> THEN "" ELSE Chr(Head(bytes)) \o Decode(Tail(bytes))

\* str(ex) of the UnicodeDecodeError
DecodeError == "'utf-8' codec can't decode byte 0xff"

\* environment[key] = os.path.expandvars(value) for the extra environment
ExtraEnvironment(setting) ==
    IF setting.type = "dict"
    THEN [k \in DOMAIN setting.val |-> ExpandVars(setting.val[k])]
    ELSE [k \in {} |-> ""]

\* the dialogs and the return value of execute_command when the process
\* behaves as outcome o
execute_command_any_exit(command, o) ==
    IF ~o.spawned THEN [errors |-> <<"Exception: " \o o.error>>, value |-> None]
    ELSE IF o.stdout # <<>>
         THEN IF Decodable(o.stdout)
              THEN [errors |-> <<>>, value |-> Decode(o.stdout)]
              ELSE [errors |-> <<"Exception: " \o DecodeError>>, value |-> None]
    ELSE [errors |-> <<>>, value |-> None]

execute_command_silent(command, o) ==
    IF ~o.spawned THEN [errors |-> <<"Exception: " \o o.error>>, value |-> None]
    ELSE IF o.returncode = 0
         THEN IF o.stdout = <<>> THEN [errors |-> <<>>, value |-> None]
              ELSE IF Decodable(o.stdout)
                   THEN [errors |-> <<>>, value |-> Decode(o.stdout)]
              ELSE [errors |-> <<"Exception: " \o DecodeError>>, value |-> None]
    ELSE [errors |-> <<>>, value |-> None]

execute_command_stdout_first(command, o) ==
    IF ~o.spawned THEN [errors |-> <<"Exception: " \o o.error>>, value |-> None]
    ELSE IF o.returncode = 0
         THEN IF o.stdout = <<>> THEN [errors |-> <<>>, value |-> None]
              ELSE IF Decodable(o.stdout)
                   THEN [errors |-> <<>>, value |-> Decode(o.stdout)]
              ELSE [errors |-> <<"Exception: " \o DecodeError>>, value |-> None]
    ELSE IF o.stdout # <<>>
         THEN IF Decodable(o.stdout)
              THEN [errors |-> <<"Error: " \o Decode(o.stdout)>>, value |-> None]
              ELSE [errors |-> <<"Exception: " \o DecodeError>>, value |-> None]
    ELSE IF o.stderr # <<>>
         THEN IF Decodable(o.stderr)
              THEN [errors |-> <<"Error: " \o Decode(o.stderr)>>, value |-> None]
              ELSE [errors |-> <<"Exception: " \o DecodeError>>, value |-> None]
    ELSE [errors |-> <<"Error: Unknown error " \o ToString(o.returncode)>>, value |-> None]

execute_command(command, o) ==
    IF ~o.spawned THEN [errors |-> <<"Exception: " \o o.error>>, value |-> None]
    ELSE IF o.returncode = 0
         THEN IF o.stdout = <<>> THEN [errors |-> <<>>, value |-> None]
              ELSE IF Decodable(o.stdout)
                   THEN [errors |-> <<>>, value |-> Decode(o.stdout)]
              ELSE [errors |-> <<"Exception: " \o DecodeError>>, value |-> None]
    ELSE IF o.stderr # <<>>
         THEN IF Decodable(o.stderr)
              THEN [errors |-> <<"Error: " \o Decode(o.stderr)>>, value |-> None]
              ELSE [errors |-> <<"Exception: " \o DecodeError>>, value |-> None]
    ELSE IF o.stdout # <<>>
         THEN IF Decodable(o.stdout)
              THEN [errors |-> <<"Error: " \o Decode(o.stdout)>>, value |-> None]
              ELSE [errors |-> <<"Exception: " \o DecodeError>>, value |-> None]
    ELSE [errors |-> <<"Error: Unknown error " \o ToString(o.returncode)>>, value |-> None]

\* the Popen call of execute_command
Spawn(command, working_directory, stdin, extra_environment, o) ==
    [command |-> command, cwd |-> working_directory, stdin |-> stdin,
     env |-> ExtraEnvironment(extra_environment), outcome |-> o]

\* what a process did: it ran and exited, or Popen raised
Spawned(returncode, stdout, stderr) ==
    [spawned |-> TRUE, returncode |-> returncode, stdout |-> stdout, stderr |-> stderr]

NotSpawned(error) == [spawned |-> FALSE, error |-> error]

-----------------------------------------------------------------------------
(* FormatFileCommand.run: the command line *)

\* sublime.Region: begin(), end(), size(), empty()
Begin(region) == IF region.a <= region.b THEN region.a ELSE region.b
End(region) == IF region.a <= region.b THEN region.b ELSE region.a
Size(region) == End(region) - Begin(region)
Empty(region) == region.a = region.b

\* view.rowcol(point)[0]: the number of line breaks before the point
Row(text, point) == Cardinality({i \in 1..point : Ch(text, i) = "\n"})

NonEmpty(region) == ~Empty(region)

selected_regions_with_carets(ignore_selections, selection) ==
    IF ignore_selections \/ Len(selection) = 0 THEN <<>> ELSE selection

selected_regions(ignore_selections, selection) ==
    IF ignore_selections \/ Len(selection) = 0 THEN <<>>
    ELSE SelectSeq(selection, NonEmpty)

autopep8_args(regions, text) ==
    (IF regions # <<>>
     THEN <<"--line-range", ToString(Row(text, Begin(regions[1])) + 1),
            ToString(Row(text, End(regions[1])) + 1)>>
     ELSE <<>>) \o <<"-">>

RECURSIVE OffsetLength(_)
OffsetLength(regions) ==
    IF regions = <<>> THEN <<>>
    ELSE <<"-offset", ToString(Begin(Head(regions))),
           "-length", ToString(Size(Head(regions)))>> \o OffsetLength(Tail(regions))

clang_format_args_offset_end(regions, fname) ==
    <<"-assume-filename", fname>>
        \o (IF regions = <<>> THEN <<>>
            ELSE <<"-offset", ToString(Begin(regions[1])),
                   "-length", ToString(End(regions[1]))>>)

clang_format_args(regions, fname) == <<"-assume-filename", fname>> \o OffsetLength(regions)

gn_args == <<"format", "--stdin">>

prettier_parser(syn) ==
    LET stem == SplitExtRoot(syn)
    IN  IF EndsWith(stem, "CSS") THEN "css"
        ELSE IF EndsWith(stem, "HTML") THEN "html"
        ELSE IF EndsWith(stem, "JSON") THEN "json"
        ELSE IF EndsWith(stem, "TypeScript") THEN "typescript"
        ELSE "babel"

prettier_args(regions, syn) ==
    <<"--parser", prettier_parser(syn)>>
        \o (IF regions # <<>>
            THEN <<"--range-start", ToString(Begin(regions[1])),
                   "--range-end", ToString(End(regions[1]))>>
            ELSE <<>>)

build_command(c, regions, text, syn, fname) ==
    <<c.binary>> \o
        (CASE c.formatter = "AutoPep8" -> autopep8_args(regions, text)
           [] c.formatter = "ClangFormat" -> clang_format_args(regions, fname)
           [] c.formatter = "Gn" -> gn_args
           [] c.formatter = "Prettier" -> prettier_args(regions, syn)
           [] OTHER -> <<>>)

-----------------------------------------------------------------------------
(* FormatFileCommand.run, as the editor dispatches it: is_enabled is asked  *)
(* first and a disabled command is not run                                  *)

\* the regions a selection is made of, in a buffer of the given size: carets
\* at both ends, [0,5), and [10,20) selected forwards and backwards
Regions(size) ==
    {r \in {[a |-> 0, b |-> 0], [a |-> 0, b |-> 5], [a |-> 10, b |-> 20],
            [a |-> 20, b |-> 10], [a |-> size, b |-> size]} :
        r.a <= size /\ r.b <= size}

MaxSel == 2

\* view.sel() keeps its regions in order and apart
Selections(size) ==
    {s \in UNION {[1..k -> Regions(size)] : k \in 0..MaxSel} :
        \A i \in 1..(Len(s) - 1) : End(s[i]) < Begin(s[i + 1])}

\* what the formatter processes of a run may do
RunOutcomes ==
    {Spawned(rc, out, err) :
        rc \in {0, 1}, out \in {<<>>, <<97>>, <<255>>}, err \in {<<>>, <<97>>}}
    \cup {NotSpawned("[Errno 2] No such file or directory")}

replaces(contents) == Truthy(contents)

\* the command was issued and not run, or nothing was issued
NotRun(op, issued, raised) ==
    /\ ret' = [op |-> op, issued |-> issued, ran |-> FALSE, raised |-> raised]
    /\ proc' = <<>>
    /\ ui' = <<>>
    /\ UNCHANGED <<sel, buffer>>

\* run(edit, ignore_selections) with the process behaving as o
RunWith(op, ignore_selections, c, o) ==
    LET command == build_command(c, selected_regions(ignore_selections, sel),
                                 buffer, syntax, file_name)
        result == execute_command(command, o)
        replaced == replaces(result.value)
    IN  /\ proc' = <<Spawn(command, DirName(file_name), buffer, c.environment, o)>>
        /\ ui' = result.errors
        /\ buffer' = IF replaced THEN result.value ELSE buffer
        /\ IF replaced THEN sel' \in Selections(Len(result.value)) ELSE sel' = sel
        /\ ret' = [op |-> op, issued |-> <<[ignore_selections |-> ignore_selections]>>,
                   ran |-> TRUE, raised |-> FALSE, sel |-> sel, before |-> buffer,
                   command |-> command, replaced |-> replaced]

\* view.run_command('format_file', {'ignore_selections': ...})
format_file(op, ignore_selections) ==
    LET c == enabled_instance(cmd)
        args == <<[ignore_selections |-> ignore_selections]>>
    IN  /\ cmd' = c
        /\ IF c.binary = None THEN NotRun(op, args, FALSE)
           ELSE IF file_name = None \/ (c.formatter = "Prettier" /\ syntax = None)
                THEN NotRun(op, args, TRUE)
           ELSE \E o \in RunOutcomes : RunWith(op, ignore_selections, c, o)

run ==
    /\ \E ignore_selections \in BOOLEAN : format_file("run", ignore_selections)
    /\ UNCHANGED <<syntax, file_name, folders, project, fs>>

\* the user selects text
SelectRegions ==
    /\ \E s \in Selections(Len(buffer)) : sel' = s
    /\ ret' = Idle
    /\ proc' = <<>>
    /\ ui' = <<>>
    /\ UNCHANGED <<syntax, file_name, buffer, folders, project, fs, cmd>>

-----------------------------------------------------------------------------
(* FormatFileListener *)

\* missing dictionary keys raise KeyError
_get_folder_data(proj) ==
    IF proj.project_path = None \/ "folders" \notin DOMAIN proj.data
    THEN [raised |-> TRUE, value |-> [n \in {} |-> ""]]
    ELSE LET entries == proj.data["folders"]
             named == {i \in DOMAIN entries : {"name", "path"} \subseteq DOMAIN entries[i]}
             names == {entries[i]["name"] : i \in named}
         IN  [raised |-> FALSE,
              value |-> [n \in names |->
                  LET last == CHOOSE i \in named :
                                  /\ entries[i]["name"] = n
                                  /\ \A j \in named : entries[j]["name"] = n => j <= i
                  IN  PathJoin(proj.project_path, entries[last]["path"])]]

\* any(file_name.startswith(folder_data[f]) for f in format_on_save)
RECURSIVE AnyFolder(_, _, _, _)
AnyFolder(i, names, folder_data, fname) ==
    IF i > Len(names) THEN [raised |-> FALSE, value |-> FALSE]
    ELSE IF names[i] \notin DOMAIN folder_data THEN [raised |-> TRUE, value |-> FALSE]
    ELSE IF StartsWith(fname, folder_data[names[i]]) THEN [raised |-> FALSE, value |-> TRUE]
    ELSE AnyFolder(i + 1, names, folder_data, fname)

_is_enabled(formatter, fname, proj) ==
    LET format_on_save == get_project_setting(proj, formatter, "on_save")
        folder_data == _get_folder_data(proj)
    IN  IF format_on_save.type = "bool" THEN [raised |-> FALSE, value |-> format_on_save.val]
        ELSE IF format_on_save.type # "list" THEN [raised |-> FALSE, value |-> FALSE]
        ELSE IF folder_data.raised THEN [raised |-> TRUE, value |-> FALSE]
        ELSE AnyFolder(1, format_on_save.val, folder_data.value, fname)

pre_save_respects_selections == FALSE

\* the ignore_selections argument on_pre_save passes to format_file
pre_save_ignore_selections == TRUE

on_pre_save ==
    /\ LET formatter == formatter_type(syntax, file_name)
           enabled == _is_enabled(formatter, file_name, project)
       IN  IF formatter = None
           THEN NotRun("on_pre_save", <<>>, FALSE) /\ UNCHANGED cmd
           ELSE IF enabled.raised
                THEN NotRun("on_pre_save", <<>>, TRUE) /\ UNCHANGED cmd
           ELSE IF ~enabled.value
                THEN NotRun("on_pre_save", <<>>, FALSE) /\ UNCHANGED cmd
           ELSE format_file("on_pre_save", pre_save_ignore_selections)
    /\ UNCHANGED <<syntax, file_name, folders, project, fs>>

-----------------------------------------------------------------------------
(* The format action on a view whose formatter is installed: the user      *)
(* selects text and runs the command                                        *)

\* 24 characters in three lines: offsets 5 and 14 hold the line breaks
SourceText == "aaaaa\naaaaaaaa\naaaaaaaaa"

InstalledFs ==
    [p \in {EnvPath[1]} \cup {PathJoin(EnvPath[1], n) : n \in BinaryNames} |->
        IF p = EnvPath[1] THEN "dir" ELSE "xfile"]

\* "settings": {"format": {"environment": {"TOOLS": "$HOME/tools"}}}
RunProject ==
    [data |-> [settings |-> [format |->
        [environment |-> [type |-> "dict", val |-> [TOOLS |-> "$HOME/tools"]]]]],
     project_path |-> "/w"]

RunSyntaxes ==
    {"Packages/Python/Python.sublime-syntax",
     "Packages/C++/C++.sublime-syntax",
     "Packages/GN/GN.sublime-syntax",
     "Packages/CSS/CSS.sublime-syntax",
     "Packages/Rust/Rust.sublime-syntax",
     "Packages/Text/Plain text.tmLanguage"}

Init ==
    /\ syntax \in RunSyntaxes
    /\ file_name = "/w/app/a.src"
    /\ sel = <<>>
    /\ buffer = SourceText
    /\ folders = <<"/w/app">>
    /\ project = RunProject
    /\ fs = InstalledFs
    /\ cmd = initialize(syntax, file_name, folders, project)
    /\ proc = <<>>
    /\ ui = <<>>
    /\ ret = Idle

Next == SelectRegions \/ run

Spec == Init /\ [][Next]_vars

-----------------------------------------------------------------------------
(* execute_command applied to every process outcome of a bounded set *)

MaxOut == 2

Bytes == {97, 10, 255}

ByteStrings(n) == UNION {[1..k -> Bytes] : k \in 0..n}

ReturnCodes == {0, 1, -9}

SpawnErrors == {"[Errno 2] No such file or directory", "[Errno 13] Permission denied"}

Outcomes ==
    {Spawned(rc, out, err) :
        rc \in ReturnCodes, out \in ByteStrings(MaxOut), err \in ByteStrings(MaxOut)}
    \cup {NotSpawned(e) : e \in SpawnErrors}

GnCommand == <<"/usr/bin/gn", "format", "--stdin">>

InitExec ==
    /\ syntax = "Packages/GN/GN.sublime-syntax"
    /\ file_name = "/w/app/a.src"
    /\ sel = <<>>
    /\ buffer \in {"", "a\n"}
    /\ folders = <<>>
    /\ project = NoProject
    /\ fs = EmptyFs
    /\ cmd = NoCommand
    /\ proc = <<>>
    /\ ui = <<>>
    /\ ret = Idle

CallExecuteCommand ==
    /\ ret = Idle
    /\ \E o \in Outcomes :
          LET result == execute_command(GnCommand, o)
          IN  /\ proc' = <<Spawn(GnCommand, DirName(file_name), buffer, NoSetting, o)>>
              /\ ui' = result.errors
              /\ ret' = [op |-> "execute_command", value |-> result.value]
    /\ UNCHANGED <<syntax, file_name, sel, buffer, folders, project, fs, cmd>>

NextExec == CallExecuteCommand

SpecExec == InitExec /\ [][NextExec]_vars

\* the outcome of the one process of the last operation
Outcome == proc[1].outcome

Failed == Outcome.spawned /\ Outcome.returncode # 0

\* the text of a stream, for the streams of the model that are valid UTF-8
TextOf(bytes) == [i \in DOMAIN bytes |-> IF bytes[i] = 97 THEN "a" ELSE "\n"]

\* a string spelled out character by character
Spell(text) == [i \in 1..Len(text) |-> Ch(text, i)]

\* C4 as stated: on a non-zero exit with non-empty standard error, the error
\* text reported equals the decoded standard error verbatim.
C4_Original ==
    ret.op = "execute_command" /\ Failed /\ Outcome.stderr # <<>> =>
        /\ Len(ui) = 1
        /\ Spell(ui[1]) = TextOf(Outcome.stderr)

\* C4 amended: on a non-zero exit with non-empty standard error, the one error
\* reported is "Error: " followed by the decoded standard error verbatim; when
\* standard error is not valid UTF-8 it is "Exception: " followed by the
\* decoder's message.
C4_StderrReported ==
    ret.op = "execute_command" /\ Failed /\ Outcome.stderr # <<>> =>
        /\ Len(ui) = 1
        /\ IF \A i \in DOMAIN Outcome.stderr : Outcome.stderr[i] # 255
           THEN /\ SubSeq(ui[1], 1, 7) = "Error: "
                /\ Spell(SubSeq(ui[1], 8, Len(ui[1]))) = TextOf(Outcome.stderr)
           ELSE ui[1] = "Exception: " \o DecodeError

\* a process failed with "a\n" on standard error and text on standard output
C4_Witness ==
    /\ ret.op = "execute_command"
    /\ Failed
    /\ Outcome.stderr = <<97, 10>>
    /\ Outcome.stdout = <<97>>
    /\ ui = <<"Error: a\n">>

\* a stream is valid UTF-8: of the bytes of the model, 0xff alone is not
Valid(bytes) == \A i \in DOMAIN bytes : bytes[i] # 255

\* message is "Error: " followed by the text of the stream
BuiltFrom(message, bytes) ==
    /\ Valid(bytes)
    /\ SubSeq(message, 1, 7) = "Error: "
    /\ Spell(SubSeq(message, 8, Len(message))) = TextOf(bytes)

Decimal(returncode) == IF returncode = 1 THEN "1" ELSE "-9"

\* the stream a failure is reported from: standard error, else standard output
Reported == IF Outcome.stderr # <<>> THEN Outcome.stderr ELSE Outcome.stdout

\* C10 as stated: on a non-zero exit execute_command reports exactly one error
\* and returns no text; the message is built from standard error if non-empty,
\* else from standard output if non-empty, else it is the unknown-error message
\* with the exit code; a spawn failure is reported as one exception-style
\* message and returns no text.
C10_Original ==
    ret.op = "execute_command" =>
        /\ Failed =>
              /\ Len(ui) = 1
              /\ ret.value = None
              /\ IF Reported # <<>> THEN BuiltFrom(ui[1], Reported)
                 ELSE ui[1] = "Error: Unknown error " \o Decimal(Outcome.returncode)
        /\ ~Outcome.spawned =>
              /\ Len(ui) = 1
              /\ ret.value = None
              /\ SubSeq(ui[1], 1, 11) = "Exception: "

\* C10 amended: as stated, except that when the stream the message is to be
\* built from is not valid UTF-8 the one message reported is the exception-style
\* message of the decoding failure.
C10_FailureReported ==
    ret.op = "execute_command" =>
        /\ Failed =>
              /\ Len(ui) = 1
              /\ ret.value = None
              /\ IF Reported = <<>>
                 THEN ui[1] = "Error: Unknown error " \o Decimal(Outcome.returncode)
                 ELSE IF Valid(Reported) THEN BuiltFrom(ui[1], Reported)
                 ELSE ui[1] = "Exception: " \o DecodeError
        /\ ~Outcome.spawned =>
              /\ Len(ui) = 1
              /\ ret.value = None
              /\ SubSeq(ui[1], 1, 11) = "Exception: "

\* a process killed by a signal that wrote nothing was reported with its code
C10_Witness ==
    /\ ret.op = "execute_command"
    /\ Outcome.spawned
    /\ Outcome.returncode = -9
    /\ Outcome.stdout = <<>>
    /\ Outcome.stderr = <<>>
    /\ ui = <<"Error: Unknown error -9">>
    /\ ret.value = None

-----------------------------------------------------------------------------
(* Claims about run *)

\* the range flags of a command line with their values, in order
RECURSIVE RangeArgs(_)
RangeArgs(command) ==
    IF command = <<>> THEN <<>>
    ELSE IF Head(command) = "--line-range" /\ Len(command) >= 3
         THEN SubSeq(command, 1, 3) \o RangeArgs(SubSeq(command, 4, Len(command)))
    ELSE IF /\ Head(command) \in {"-offset", "-length", "--range-start", "--range-end"}
            /\ Len(command) >= 2
         THEN SubSeq(command, 1, 2) \o RangeArgs(SubSeq(command, 3, Len(command)))
    ELSE RangeArgs(Tail(command))

\* run was called by the user's command, honouring the selection
RanOnSelection == ret.op = "run" /\ ret.ran /\ ~ret.issued[1].ignore_selections

\* C3: the buffer is replaced by a run only when the process exits zero with
\* non-empty standard output, and then with exactly that output; in every other
\* outcome the buffer is unchanged; a run never spawns a second process.
C3_BufferReplaced ==
    ret.op = "run" =>
        IF ret.ran
        THEN /\ Len(proc) = 1
             /\ LET success == /\ Outcome.spawned
                               /\ Outcome.returncode = 0
                               /\ Outcome.stdout # <<>>
                IN  /\ ret.replaced \/ buffer # ret.before =>
                          success /\ Valid(Outcome.stdout)
                                  /\ Spell(buffer) = TextOf(Outcome.stdout)
                    /\ ~success => buffer = ret.before /\ ~ret.replaced
        ELSE proc = <<>>

\* the source text was replaced by the formatter's output "a"
C3_Witness ==
    /\ ret.op = "run"
    /\ ret.ran
    /\ ret.replaced
    /\ ret.before = SourceText
    /\ buffer = "a"
    /\ Outcome.stdout = <<97>>

\* C5: with the single selection [10,20) and a range-capable formatter, run
\* without ignore_selections passes the tool's range flags with that offset and
\* length (clang-format), that start and end (prettier), or the 1-based lines of
\* its two ends (autopep8), and no other range flag.
C5_RangeFlags ==
    /\ RanOnSelection
    /\ ret.before = SourceText
    /\ Len(ret.sel) = 1
    /\ Begin(ret.sel[1]) = 10
    /\ End(ret.sel[1]) = 20
    => CASE cmd.formatter = "AutoPep8" ->
                RangeArgs(ret.command) = <<"--line-range", "2", "3">>
         [] cmd.formatter = "ClangFormat" ->
                RangeArgs(ret.command) = <<"-offset", "10", "-length", "10">>
         [] cmd.formatter = "Prettier" ->
                RangeArgs(ret.command) = <<"--range-start", "10", "--range-end", "20">>
         [] OTHER -> TRUE

\* clang-format was run on [10,20), selected backwards
C5_Witness ==
    /\ RanOnSelection
    /\ ret.sel = <<[a |-> 20, b |-> 10]>>
    /\ cmd.formatter = "ClangFormat"
    /\ ret.command = <<"/usr/bin/clang-format", "-assume-filename", "/w/app/a.src",
                       "-offset", "10", "-length", "10">>

\* the range flags a tool is given for one region
FlagsFor(formatter, region, text) ==
    CASE formatter = "AutoPep8" ->
            <<"--line-range", ToString(Row(text, Begin(region)) + 1),
              ToString(Row(text, End(region)) + 1)>>
      [] formatter = "ClangFormat" ->
            <<"-offset", ToString(Begin(region)), "-length", ToString(End(region) - Begin(region))>>
      [] formatter = "Prettier" ->
            <<"--range-start", ToString(Begin(region)), "--range-end", ToString(End(region))>>

RECURSIVE FlagsForAll(_, _, _)
FlagsForAll(formatter, regions, text) ==
    IF regions = <<>> THEN <<>>
    ELSE FlagsFor(formatter, Head(regions), text) \o FlagsForAll(formatter, Tail(regions), text)

Selected(selection) == SelectSeq(selection, NonEmpty)

RangeCapable == {"AutoPep8", "ClangFormat", "Prettier"}

\* C6 as stated: every range-limited formatter receives range flags for the
\* first non-empty selection only, and none when there is no selection or every
\* selection is empty.
C6_Original ==
    RanOnSelection /\ cmd.formatter \in RangeCapable =>
        RangeArgs(ret.command) =
            IF Selected(ret.sel) = <<>> THEN <<>>
            ELSE FlagsFor(cmd.formatter, Selected(ret.sel)[1], ret.before)

\* C6 amended: autopep8 and prettier receive range flags for the first
\* non-empty selection only; clang-format receives an -offset/-length pair for
\* every non-empty selection, in order; no formatter receives a range flag when
\* there is no selection or every selection is empty.
C6_SelectionFlags ==
    RanOnSelection /\ cmd.formatter \in RangeCapable =>
        RangeArgs(ret.command) =
            IF Selected(ret.sel) = <<>> THEN <<>>
            ELSE IF cmd.formatter = "ClangFormat"
                 THEN FlagsForAll(cmd.formatter, Selected(ret.sel), ret.before)
            ELSE FlagsFor(cmd.formatter, Selected(ret.sel)[1], ret.before)

\* clang-format was run with a caret and two non-empty selections active
C6_Witness ==
    /\ RanOnSelection
    /\ cmd.formatter = "ClangFormat"
    /\ Len(Selected(ret.sel)) = 2
    /\ RangeArgs(ret.command) =
           <<"-offset", "0", "-length", "5", "-offset", "10", "-length", "10">>

-----------------------------------------------------------------------------
(* Saving a view in a project of three folders, with every kind of on_save *)
(* setting for clang-format                                                 *)

\* "folders": [{"name": "app", "path": "app"},
\*             {"name": "tests", "path": "app-tests"}, {"path": "lib"}]
SaveFolders ==
    <<[name |-> "app", path |-> "app"], [name |-> "tests", path |-> "app-tests"],
      [path |-> "lib"]>>

OnSaveValues ==
    {[type |-> "bool", val |-> TRUE], [type |-> "bool", val |-> FALSE],
     [type |-> "list", val |-> <<>>], [type |-> "list", val |-> <<"app">>],
     [type |-> "list", val |-> <<"tests">>], [type |-> "list", val |-> <<"tests", "app">>],
     [type |-> "list", val |-> <<"app", "lib">>],
     [type |-> "str", val |-> "true"], [type |-> "int", val |-> 1]}

\* the project file /w/w.sublime-project
SaveProjects ==
    {[data |-> [folders |-> SaveFolders,
                settings |-> [format |-> ("clang-format" :> setting)]],
      project_path |-> "/w"] :
        setting \in {[on_save |-> v] : v \in OnSaveValues} \cup {[k \in {} |-> NoSetting]}}

InitSave ==
    /\ syntax \in {"Packages/C++/C++.sublime-syntax", "Packages/Text/Plain text.tmLanguage"}
    /\ file_name \in {"/w/app/a.src", "/w/app-tests/a.src", "/w/lib/a.src"}
    /\ sel = <<>>
    /\ buffer = SourceText
    /\ folders = <<"/w/app", "/w/app-tests", "/w/lib">>
    /\ project \in SaveProjects
    /\ fs = InstalledFs
    /\ cmd = initialize(syntax, file_name, folders, project)
    /\ proc = <<>>
    /\ ui = <<>>
    /\ ret = Idle

NextSave == SelectRegions \/ on_pre_save

SpecSave == InitSave /\ [][NextSave]_vars

\* the on_save setting of the formatter, as written in the project
OnSaveSetting(formatter) ==
    LET format == project.data["settings"]["format"]
    IN  IF Str(formatter) \in DOMAIN format /\ "on_save" \in DOMAIN format[Str(formatter)]
        THEN format[Str(formatter)]["on_save"]
        ELSE NoSetting

\* the saved file lies under the resolved path of a project folder of that name
UnderFolderNamed(name) ==
    /\ project.project_path # None
    /\ \E i \in DOMAIN project.data["folders"] :
          LET folder == project.data["folders"][i]
          IN  /\ {"name", "path"} \subseteq DOMAIN folder
              /\ folder["name"] = name
              /\ Contains(project.project_path \o "/" \o folder["path"], file_name)

Fired == ret.issued # <<>>

\* C7 as stated: with on_save a list of folder names the trigger fires for a
\* file under the resolved path of a listed folder and does not fire, and
\* raises no error, for a file under a folder that is not listed; a boolean
\* on_save fires exactly when true; a missing or otherwise-typed on_save never
\* fires.
C7_Original ==
    ret.op = "on_pre_save" /\ formatter_type(syntax, file_name) # None =>
        LET on_save == OnSaveSetting(formatter_type(syntax, file_name))
        IN  /\ ~ret.raised
            /\ Fired <=>
                  IF on_save.type = "bool" THEN on_save.val
                  ELSE IF on_save.type = "list"
                       THEN \E i \in DOMAIN on_save.val : UnderFolderNamed(on_save.val[i])
                  ELSE FALSE

\* the part of C7 about lists of names the project gives its folders: no
\* error is raised
C7_NoErrorOnNamedFolders ==
    ret.op = "on_pre_save" /\ formatter_type(syntax, file_name) # None =>
        LET on_save == OnSaveSetting(formatter_type(syntax, file_name))
        IN  /\ on_save.type = "list"
            /\ \A i \in DOMAIN on_save.val : on_save.val[i] \in {"app", "tests"}
            => ~ret.raised

\* C9: a pre-save event issues at most one format command, only when a
\* formatter matches the view's language and its on_save setting is true or a
\* folder list, and always with ignore_selections set, so that the formatter's
\* command line has no range flag whatever is selected.
C9_PreSave ==
    ret.op = "on_pre_save" =>
        /\ Len(ret.issued) <= 1
        /\ Len(proc) <= 1
        /\ Fired =>
              /\ formatter_type(syntax, file_name) # None
              /\ LET on_save == OnSaveSetting(formatter_type(syntax, file_name))
                 IN  \/ on_save.type = "bool" /\ on_save.val
                     \/ on_save.type = "list" /\ on_save.val # <<>>
              /\ ret.issued[1].ignore_selections
        /\ ret.ran => RangeArgs(ret.command) = <<>>

\* a save formatted the buffer while [10,20) was selected
C9_Witness ==
    /\ ret.op = "on_pre_save"
    /\ ret.ran
    /\ ret.sel = <<[a |-> 10, b |-> 20]>>
    /\ ret.command = <<"/usr/bin/clang-format", "-assume-filename", file_name>>
    /\ Len(proc) = 1

====
